---- MODULE Spec2Model ----
(***************************************************************************)
(* Model of bzt/modules/shellexec.py: the Task state machine (start,       *)
(* check, shutdown), the processes it spawns, the errors that leave each   *)
(* call, and the ShellExecutor hooks that drive the Tasks of the five      *)
(* stages. Spec is one Task under any order of calls; SpecExec and         *)
(* SpecTeardown are runs of the hooks in the order of the engine.          *)
(***************************************************************************)
EXTENDS Integers, Sequences, FiniteSets, TLC

\* ---------------------------------------------------------------- bounds
\* Processes one behaviour may spawn.
MaxSpawn == 3

\* Escalations from shutdown() that are counted before shutdown() is no
\* longer called.
MaxEsc == 2

\* Task entries in the configuration of one run, over the five stages.
MaxTasks == 1

\* Task entries in the configuration of a run that tears down several
\* tasks.
MaxTeardown == 2

\* Calls of ShellExecutor.check() in one run.
MaxChecks == 2

\* Exit codes a finished command may report.
ExitCodes == {0, 7}

\* ------------------------------------------------------- Python values
\* self.ret_code = None
NONE == -1

\* self.process = None
NoProc == 0

NoError == "none"
CalledProcessError == "CalledProcessError"
AutomatedShutdown == "AutomatedShutdown"
AttributeError == "AttributeError"
TypeError == "TypeError"

\* ValueError("Parameter is required: command"): the object that line 95
\* stores as the command when the entry has none.
ValueErrorObject == "ValueError"

\* LoggingFileOutput(self.log, logging.DEBUG) and (self.log, logging.INFO)
LogDebug == "LoggingFileOutput(DEBUG)"
LogInfo == "LoggingFileOutput(INFO)"

\* A task entry of the configuration is a dictionary: a function from the
\* keys it has to their values. An optional key is given as a sequence of
\* no or one value.
EmptyDict == [k \in {} |-> TRUE]

Item(key, opt) == IF opt = <<>> THEN EmptyDict ELSE key :> opt[1]

Entry(cmd, bg, ign, out, err) ==
  Item("command", cmd) @@ Item("background", bg) @@
  Item("ignore-failure", ign) @@ Item("out", out) @@ Item("err", err)

\* dict.get(key, default)
Get(dict, key, default) == IF key \in DOMAIN dict THEN dict[key] ELSE default

\* The two errors by which a failed exit leaves a Task.
Escalations == {CalledProcessError, AutomatedShutdown}

TruthyNotNone(ret) == ret # "None"

\* Truth value of what Task.check() returns: "None" (bare return) and
\* "False" are false, "True" is true.
Truthy(ret) == ret = "True"

\* ------------------------------------------------------- the processes
\* procs is the sequence of processes spawned so far; a handle is an index.
Running(procs, h) == h # NoProc /\ procs[h].state = "running"

\* subprocess.Popen(**kwargs): a new running process, its standard output
\* and standard error going where kwargs says.
Popen(procs, kwargs) ==
  Append(procs, [state |-> "running", code |-> NONE,
                 stdout |-> kwargs.stdout, stderr |-> kwargs.stderr])

\* subprocess.call / check_call: a process that ran to its exit code rc.
CallProc(procs, kwargs, rc) ==
  Append(procs, [state |-> "exited", code |-> rc,
                 stdout |-> kwargs.stdout, stderr |-> kwargs.stderr])

\* Popen.poll(): None while running, the exit code afterwards.
Poll(procs, h) == IF procs[h].state = "running" THEN NONE ELSE procs[h].code

\* The process h exits by itself with code rc.
ExitProc(procs, h, rc) ==
  [procs EXCEPT ![h].state = "exited", ![h].code = rc]

\* bzt.utils.shutdown_process: stops a running process, no effect otherwise.
ShutdownProcess(procs, h) ==
  IF Running(procs, h)
    THEN [procs EXCEPT ![h].state = "killed", ![h].code = 0 - 9]
    ELSE procs

\* ------------------------------------------------------------ the Task
\* Task.__init__: the fields read from the entry, no process, no exit code.
TaskInit(config) ==
  [command |-> Get(config, "command", ValueErrorObject),
   is_background |-> Get(config, "background", FALSE),
   ignore_failure |-> Get(config, "ignore-failure", TRUE),
   err |-> Get(config, "out", LogDebug),
   out |-> Get(config, "err", LogInfo),
   process |-> NoProc, ret_code |-> NONE]

\* What one call did: the Task and processes it leaves, the error raised,
\* the value returned, and the counts of polls, spawns, shutdown_process
\* invocations and "was finished" log lines.
Outcome(t, procs, raised, ret, polls, spawns, kills, logs) ==
  [t |-> t, procs |-> procs, raised |-> raised, ret |-> ret,
   polls |-> polls, spawns |-> spawns, kills |-> kills, logs |-> logs]

CheckDoneForegroundOnly(t) == ~t.is_background

\* Task.check line 135: nothing left to do.
CheckDone(t) == t.ret_code # NONE \/ ~t.is_background

\* Task.check lines 141-143: what follows a poll that saw the process end.
CheckFinished(t) ==
  IF ~t.ignore_failure THEN [raised |-> CalledProcessError, ret |-> "n/a"]
  ELSE [raised |-> NoError, ret |-> "True"]

\* Task.check
Check(t, procs) ==
  IF CheckDone(t)
    THEN Outcome(t, procs, NoError, "None", 0, 0, 0, 0)
  ELSE IF t.process = NoProc
    THEN Outcome(t, procs, AttributeError, "n/a", 0, 0, 0, 0)
  ELSE LET rc == Poll(procs, t.process)
           t2 == [t EXCEPT !.ret_code = rc]
       IN IF rc # NONE
            THEN Outcome(t2, procs, CheckFinished(t2).raised,
                         CheckFinished(t2).ret, 1, 0, 0, 1)
            ELSE Outcome(t2, procs, NoError, "False", 1, 0, 0, 0)

HasProcessNever(t) == FALSE

\* Task.start line 108: if self.process
HasProcess(t) == t.process # NoProc

CheckCallSilent(rc) == NoError

\* subprocess.check_call: raises on a non-zero exit code.
CheckCall(rc) == IF rc # 0 THEN CalledProcessError ELSE NoError

\* Task.start lines 113-119: the arguments of the spawn.
Kwargs(t) == [args |-> t.command, stdout |-> t.out, stderr |-> t.err]

\* subprocess.Popen, call and check_call raise TypeError before they spawn
\* when args is neither a string nor a sequence.
BadArgs(kwargs) == kwargs.args = ValueErrorObject

\* Task.start; rc is the exit code of the command when it runs in the
\* foreground.
Start(t, procs, rc) ==
  IF HasProcess(t)
    THEN LET c == Check(t, procs)
         IN Outcome(c.t, c.procs, c.raised, "n/a", c.polls, 0, 0, c.logs)
  ELSE IF BadArgs(Kwargs(t))
    THEN Outcome(t, procs, TypeError, "n/a", 0, 0, 0, 0)
  ELSE IF t.is_background
    THEN LET ps == Popen(procs, Kwargs(t))
         IN Outcome([t EXCEPT !.process = Len(ps)], ps, NoError, "n/a",
                    0, 1, 0, 0)
  ELSE IF t.ignore_failure
    THEN Outcome(t, CallProc(procs, Kwargs(t), rc), NoError, "n/a",
                 0, 1, 0, 0)
  ELSE Outcome(t, CallProc(procs, Kwargs(t), rc), CheckCall(rc), "n/a",
               0, 1, 0, 0)

ShutdownFailsStrictOnly(t) == ~t.ignore_failure

\* Task.shutdown line 160: if self.ret_code and not self.ignore_failure
ShutdownFails(t) == t.ret_code # NONE /\ t.ret_code # 0 /\ ~t.ignore_failure

\* Task.shutdown; mid is the exit code with which a running process ends
\* between the two check() calls, NONE when it does not end there.
Shutdown(t, procs, mid) ==
  LET c1 == Check(t, procs)
  IN IF c1.raised # NoError
       THEN Outcome(c1.t, c1.procs, c1.raised, "n/a", c1.polls, 0, 0, c1.logs)
     ELSE
       LET ps2 == IF mid # NONE /\ Running(c1.procs, c1.t.process)
                    THEN ExitProc(c1.procs, c1.t.process, mid)
                    ELSE c1.procs
           c2 == Check(c1.t, ps2)
       IN IF c2.raised # NoError
            THEN Outcome(c2.t, c2.procs, c2.raised, "n/a",
                         c1.polls + c2.polls, 0, 0, c1.logs + c2.logs)
          ELSE
            LET kill == ~Truthy(c2.ret)
                ps3 == IF kill THEN ShutdownProcess(c2.procs, c2.t.process)
                       ELSE c2.procs
                t3 == [c2.t EXCEPT !.process = NoProc]
            IN Outcome(t3, ps3,
                       IF ShutdownFails(t3) THEN AutomatedShutdown ELSE NoError,
                       "n/a", c1.polls + c2.polls, 0,
                       IF kill THEN 1 ELSE 0, c1.logs + c2.logs)

\* ------------------------------------------------------------ the state
VARIABLES task, procs, last, escalated, kinds, config

\* The ShellExecutor: parameters is self.parameters, lists the five task
\* lists, pc the hook the engine is in and the position in it, hookEnd how
\* the latest hook ended, calls the start() and shutdown() calls each Task
\* has had, who the Task of the latest call.
VARIABLES parameters, lists, pc, hookEnd, calls, who

taskVars == <<task, procs, last, escalated, kinds, config>>

execVars == <<parameters, lists, pc, hookEnd, calls, who>>

vars == <<task, procs, last, escalated, kinds, config,
          parameters, lists, pc, hookEnd, calls, who>>

\* The stages of ShellExecutor.prepare lines 53-57.
StageNames == {"prepare", "startup", "check", "shutdown", "post-process"}

\* ShellExecutor.__init__: five empty lists.
NoTasks == [st \in StageNames |-> <<>>]

NoHook == [hook |-> "none", raised |-> NoError, ret |-> "n/a", unfinished |-> 0]

Nobody == [stage |-> "none", idx |-> 0, started |-> FALSE, shutBefore |-> 0]

\* No ShellExecutor: a Task on its own.
ExecIdle ==
  /\ parameters = NoTasks
  /\ lists = NoTasks
  /\ pc = [hook |-> "none", i |-> 0, checks |-> 0, failed |-> FALSE]
  /\ hookEnd = NoHook
  /\ calls = NoTasks
  /\ who = Nobody

\* config: the entry the Task was made from.
\* task: the Task object; procs: the processes spawned so far; escalated:
\* how many shutdown() calls ended in an escalation; kinds: the kinds of
\* escalation that calls on the Task have raised so far.
\* last: the latest call on the Task. op names it, pre and preProcs are the
\* Task and the processes when it was made, liveAtKill tells whether the
\* Task's process was running when shutdown() decided about termination,
\* rc is the exit code of a foreground command; the rest is the Outcome.
Call(op, pre, preProcs, o, rc, liveAtKill) ==
  [op |-> op, pre |-> pre, preProcs |-> preProcs, rc |-> rc,
   liveAtKill |-> liveAtKill,
   raised |-> o.raised, ret |-> o.ret, polls |-> o.polls,
   spawns |-> o.spawns, kills |-> o.kills, logs |-> o.logs]

\* The entries a single Task is made from: with a command, background and
\* ignore-failure given, out and err given or left out.
TaskEntries ==
  {Entry(<<"cmd">>, <<bg>>, <<ign>>, out, err) :
     bg \in BOOLEAN, ign \in BOOLEAN,
     out \in {<<>>, <<"sinkA">>}, err \in {<<>>, <<"sinkB">>}}

Init ==
  /\ config \in TaskEntries
  /\ task = TaskInit(config)
  /\ procs = <<>>
  /\ last = Call("new", task, procs,
                 Outcome(task, procs, NoError, "n/a", 0, 0, 0, 0), NONE, FALSE)
  /\ escalated = 0
  /\ kinds = {}
  /\ ExecIdle

Apply(op, o, rc, liveAtKill) ==
  /\ task' = o.t
  /\ procs' = o.procs
  /\ last' = Call(op, task, procs, o, rc, liveAtKill)
  /\ kinds' = IF o.raised \in Escalations THEN kinds \cup {o.raised} ELSE kinds

\* A call of Task.start().
DoStart ==
  \E rc \in ExitCodes :
    LET o == Start(task, procs, IF task.is_background THEN NONE ELSE rc)
    IN /\ Len(o.procs) <= MaxSpawn
       /\ Apply("start", o, IF o.spawns = 1 /\ ~task.is_background
                               THEN rc ELSE NONE, FALSE)
       /\ UNCHANGED <<escalated, config>>
       /\ UNCHANGED execVars

\* A call of Task.check().
DoCheck ==
  /\ Apply("check", Check(task, procs), NONE, FALSE)
  /\ UNCHANGED <<escalated, config>>
  /\ UNCHANGED execVars

\* A call of Task.shutdown().
DoShutdown ==
  /\ escalated < MaxEsc
  /\ \E mid \in ExitCodes \cup {NONE} :
       /\ mid # NONE => Running(procs, task.process)
       /\ LET o == Shutdown(task, procs, mid)
          IN /\ Apply("shutdown", o, NONE,
                      mid = NONE /\ Running(procs, task.process))
             /\ escalated' = IF o.raised \in Escalations
                               THEN escalated + 1 ELSE escalated
             /\ UNCHANGED config
             /\ UNCHANGED execVars

\* The Task's background process ends by itself.
ProcessExit ==
  \E h \in 1..Len(procs), rc \in ExitCodes :
    /\ procs[h].state = "running"
    /\ procs' = ExitProc(procs, h, rc)
    /\ UNCHANGED <<task, last, escalated, kinds, config>>
    /\ UNCHANGED execVars

Next == DoStart \/ DoCheck \/ DoShutdown \/ ProcessExit

Spec == Init /\ [][Next]_vars

TypeOK ==
  /\ task.process \in 0..Len(procs)
  /\ task.ret_code \in ExitCodes \cup {NONE}
  /\ Len(procs) <= MaxSpawn

\* ------------------------------------------------------ the ShellExecutor
\* The entries of a run's configuration: with a command, background and
\* ignore-failure given, or with nothing but background.
ExecEntries ==
  {Entry(<<"cmd">>, <<bg>>, <<ign>>, <<>>, <<>>) :
     bg \in BOOLEAN, ign \in BOOLEAN}
  \cup {Entry(<<>>, <<TRUE>>, <<>>, <<>>, <<>>)}

\* The entries of a run, each with its stage, in the order of the file.
Placements(max) ==
  UNION {[1..n -> StageNames \X ExecEntries] : n \in 0..max}

\* self.parameters: for each stage the list of its entries.
ParametersOf(pl) ==
  [st \in StageNames |->
     LET mine == SelectSeq(pl, LAMBDA x : x[1] = st)
     IN [i \in 1..Len(mine) |-> mine[i][2]]]

\* ShellExecutor._load_tasks, for the five stages: one Task per entry.
LoadTasks(params) ==
  [st \in StageNames |->
     [i \in 1..Len(params[st]) |-> TaskInit(params[st][i])]]

\* for task in <list>: task.<op>()
CallsOn(op, ls, st) ==
  [i \in 1..Len(ls[st]) |-> [op |-> op, stage |-> st, idx |-> i]]

\* ShellExecutor.post_process lines 86-88: start() then shutdown() of each
\* post-process task.
PostProcessCalls(ls) ==
  [k \in 1..(2 * Len(ls["post-process"])) |->
     [op |-> IF k % 2 = 1 THEN "start" ELSE "shutdown",
      stage |-> "post-process", idx |-> (k + 1) \div 2]]

\* The Task calls a hook makes, in order.
Plan(hook, ls) ==
  CASE hook = "prepare" -> CallsOn("start", ls, "prepare")
    [] hook = "startup" -> CallsOn("start", ls, "startup")
    [] hook = "check" ->
         CallsOn("start", ls, "check") \o CallsOn("check", ls, "prepare")
         \o CallsOn("check", ls, "startup") \o CallsOn("check", ls, "check")
    [] hook = "shutdown" ->
         CallsOn("shutdown", ls, "check") \o CallsOn("shutdown", ls, "startup")
         \o CallsOn("start", ls, "shutdown")
    [] hook = "post_process" ->
         CallsOn("shutdown", ls, "shutdown") \o CallsOn("shutdown", ls, "check")
         \o CallsOn("shutdown", ls, "startup")
         \o CallsOn("shutdown", ls, "prepare") \o PostProcessCalls(ls)
    [] OTHER -> <<>>

\* The hook the engine runs after hook has ended: prepare, startup, check
\* once or more, shutdown, post_process; after a hook that raised, the
\* teardown hooks that are still due.
NextHook(hook, raised, again) ==
  CASE hook = "prepare" -> IF raised THEN "post_process" ELSE "startup"
    [] hook = "startup" -> IF raised THEN "shutdown" ELSE "check"
    [] hook = "check" -> IF ~raised /\ again THEN "check" ELSE "shutdown"
    [] hook = "shutdown" -> "post_process"
    [] OTHER -> "done"

\* The tasks ShellExecutor.check polls whose process is still running.
\* All Tasks of the five lists, as <<stage, index>>.
TaskIds(ls) ==
  UNION {{<<st, i>> : i \in 1..Len(ls[st])} : st \in StageNames}

\* The tasks ShellExecutor.check polls whose process is still running.
Unfinished(ls, ps) ==
  Cardinality({id \in TaskIds(ls) :
                 /\ id[1] \in {"prepare", "startup", "check"}
                 /\ Running(ps, ls[id[1]][id[2]].process)})

\* A ShellExecutor with at most max entries in its parameters, before
\* prepare().
ExecStart(max) ==
  /\ \E pl \in Placements(max) : parameters = ParametersOf(pl)
  /\ lists = NoTasks
  /\ pc = [hook |-> "prepare", i |-> 0, checks |-> 0, failed |-> FALSE]
  /\ hookEnd = NoHook
  /\ calls = NoTasks
  /\ who = Nobody
  /\ config = Entry(<<"cmd">>, <<>>, <<>>, <<>>, <<>>)
  /\ task = TaskInit(config)
  /\ procs = <<>>
  /\ last = Call("new", task, procs,
                 Outcome(task, procs, NoError, "n/a", 0, 0, 0, 0), NONE, FALSE)
  /\ escalated = 0
  /\ kinds = {}

\* The hook ends, by return or by the error raised; the engine goes on.
EndHook(raised, ret, ls, ps) ==
  \E again \in BOOLEAN :
    /\ again => (pc.hook = "check" /\ raised = NoError /\ pc.checks < MaxChecks)
    /\ hookEnd' = [hook |-> pc.hook, raised |-> raised, ret |-> ret,
                   unfinished |-> Unfinished(ls, ps)]
    /\ LET nxt == NextHook(pc.hook, raised # NoError, again)
       IN pc' = [hook |-> nxt, i |-> 1,
                 checks |-> IF nxt = "check" THEN pc.checks + 1 ELSE pc.checks,
                 failed |-> pc.failed \/ raised # NoError]

\* ShellExecutor.prepare lines 53-57: the five lists are loaded.
Load ==
  /\ pc.hook = "prepare" /\ pc.i = 0
  /\ lists' = LoadTasks(parameters)
  /\ calls' = [st \in StageNames |->
                 [i \in 1..Len(parameters[st]) |-> [start |-> 0, shutdown |-> 0]]]
  /\ pc' = [pc EXCEPT !.i = 1]
  /\ UNCHANGED <<parameters, hookEnd, who>>
  /\ UNCHANGED taskVars

\* The call at the hook's position, with outcome o, on the Task c names.
Step(c, o, rc, liveAtKill) ==
  /\ lists' = [lists EXCEPT ![c.stage][c.idx] = o.t]
  /\ task' = o.t
  /\ config' = parameters[c.stage][c.idx]
  /\ procs' = o.procs
  /\ last' = Call(c.op, lists[c.stage][c.idx], procs, o, rc, liveAtKill)
  /\ kinds' = IF o.raised \in Escalations THEN kinds \cup {o.raised} ELSE kinds
  /\ escalated' = IF c.op = "shutdown" /\ o.raised \in Escalations
                    THEN escalated + 1 ELSE escalated
  /\ who' = [stage |-> c.stage, idx |-> c.idx,
             started |-> calls[c.stage][c.idx].start > 0,
             shutBefore |-> calls[c.stage][c.idx].shutdown]
  /\ calls' = IF c.op = "start"
                THEN [calls EXCEPT ![c.stage][c.idx].start = @ + 1]
              ELSE IF c.op = "shutdown"
                THEN [calls EXCEPT ![c.stage][c.idx].shutdown = @ + 1]
              ELSE calls
  /\ IF o.raised # NoError
       THEN EndHook(o.raised, "n/a", lists', procs')
       ELSE pc' = [pc EXCEPT !.i = @ + 1] /\ UNCHANGED hookEnd
  /\ UNCHANGED parameters

AtCall(op) ==
  /\ pc.i \in 1..Len(Plan(pc.hook, lists))
  /\ Plan(pc.hook, lists)[pc.i].op = op

\* task.start() in a hook.
HookStart ==
  /\ AtCall("start")
  /\ LET c == Plan(pc.hook, lists)[pc.i]
         t == lists[c.stage][c.idx]
     IN \E rc \in ExitCodes :
          LET o == Start(t, procs, IF t.is_background THEN NONE ELSE rc)
          IN Step(c, o, IF o.spawns = 1 /\ ~t.is_background THEN rc ELSE NONE,
                  FALSE)

\* task.check() in ShellExecutor.check.
HookCheck ==
  /\ AtCall("check")
  /\ LET c == Plan(pc.hook, lists)[pc.i]
     IN Step(c, Check(lists[c.stage][c.idx], procs), NONE, FALSE)

\* task.shutdown() in ShellExecutor.shutdown and post_process.
HookShutdown ==
  /\ AtCall("shutdown")
  /\ LET c == Plan(pc.hook, lists)[pc.i]
         t == lists[c.stage][c.idx]
     IN \E mid \in ExitCodes \cup {NONE} :
          /\ mid # NONE => Running(procs, t.process)
          /\ Step(c, Shutdown(t, procs, mid), NONE,
                  mid = NONE /\ Running(procs, t.process))

\* The hook returns; ShellExecutor.check returns what super().check()
\* returns, the host's own readiness.
HookReturn ==
  /\ pc.hook \in {"prepare", "startup", "check", "shutdown", "post_process"}
  /\ pc.i = Len(Plan(pc.hook, lists)) + 1
  /\ \E ready \in {"True", "False"} :
       EndHook(NoError, IF pc.hook = "check" THEN ready ELSE "None",
               lists, procs)
  /\ UNCHANGED <<parameters, lists, calls, who>>
  /\ UNCHANGED taskVars

\* A background process of the run ends by itself.
HookProcessExit ==
  /\ pc.hook # "done"
  /\ \E h \in 1..Len(procs), rc \in ExitCodes :
       /\ procs[h].state = "running"
       /\ procs' = ExitProc(procs, h, rc)
  /\ UNCHANGED <<task, last, escalated, kinds, config>>
  /\ UNCHANGED execVars

ExecNext ==
  Load \/ HookStart \/ HookCheck \/ HookShutdown \/ HookReturn
  \/ HookProcessExit

ExecInit == ExecStart(MaxTasks)

SpecExec == ExecInit /\ [][ExecNext]_vars

TeardownInit == ExecStart(MaxTeardown)

SpecTeardown == TeardownInit /\ [][ExecNext]_vars

ExecTypeOK ==
  /\ pc.checks <= MaxChecks
  /\ \A id \in TaskIds(lists) :
       lists[id[1]][id[2]].process \in 0..Len(procs)

\* ------------------------------------------------------------ the claims
ForegroundStart == last.op = "start" /\ ~last.pre.is_background

\* C1: start() of a foreground Task with ignore_failure returns normally
\* and leaves ret_code equal to the exit code of the command.
C1_StartRecordsExitCode ==
  (ForegroundStart /\ last.pre.ignore_failure)
    => (last.raised = NoError /\ task.ret_code = last.rc)

\* C2: start() of a foreground Task without ignore_failure raises exactly
\* when the exit code of the command is not 0, and returns normally on 0.
C2_StartRaisesIffNonZero ==
  (ForegroundStart /\ ~last.pre.ignore_failure)
    => /\ last.spawns = 1
       /\ last.raised \in Escalations <=> last.rc # 0
       /\ last.rc = 0 => last.raised = NoError

C2_Witness ==
  /\ ForegroundStart /\ ~last.pre.ignore_failure
  /\ last.rc = 7 /\ last.raised = CalledProcessError

\* C3: every escalation that leaves the Task, from start(), check() or
\* shutdown(), is of one and the same kind.
C3_OneEscalationKind == Cardinality(kinds) <= 1

\* C4: start() on a background Task whose process is still running spawns
\* nothing and keeps the process handle.
C4_StartKeepsRunningProcess ==
  (/\ last.op = "start" /\ last.pre.is_background
   /\ Running(last.preProcs, last.pre.process))
    => /\ last.spawns = 0
       /\ Len(procs) = Len(last.preProcs)
       /\ task.process = last.pre.process

C4_Witness ==
  /\ last.op = "start" /\ last.pre.is_background
  /\ Running(last.preProcs, last.pre.process)
  /\ last.polls = 1 /\ Len(procs) = 1 /\ task.process = 1

\* C5: shutdown() invokes shutdown_process exactly when the Task is a
\* background Task whose process is still running, and then the handle is
\* cleared.
C5_KillIffRunning ==
  last.op = "shutdown"
    => /\ last.kills = 1 <=> (last.pre.is_background /\ last.liveAtKill)
       /\ last.kills = 1 => task.process = NoProc

\* C6: shutdown() escalates exactly when ignore_failure is false and the
\* exit code is set and not 0, and at most one shutdown() of a Task
\* escalates.
C6_ShutdownEscalatesOnce ==
  /\ last.op = "shutdown"
       => (last.raised \in Escalations <=> ShutdownFails(task))
  /\ escalated <= 1

\* A check() of a background Task that polled and saw the process ended.
CheckSawExit ==
  /\ last.op = "check" /\ last.pre.is_background
  /\ last.polls = 1 /\ task.ret_code # NONE

\* C7: a check() that sees the process ended records the exit code and
\* raises only if ignore_failure is false and the code is not 0; otherwise
\* it returns True.
C7_CheckEscalatesOnFailureOnly ==
  CheckSawExit
    => /\ task.ret_code = Poll(last.preProcs, last.pre.process)
       /\ IF ~task.ignore_failure /\ task.ret_code # 0
            THEN last.raised \in Escalations
            ELSE last.raised = NoError /\ last.ret = "True"

\* C8: a check() of a background Task whose ret_code is already set does
\* not poll, does not log, and changes neither ret_code nor the handle.
C8_CheckAfterFinishIsNoOp ==
  (last.op = "check" /\ last.pre.is_background /\ last.pre.ret_code # NONE)
    => /\ last.polls = 0 /\ last.logs = 0 /\ last.raised = NoError
       /\ task.ret_code = last.pre.ret_code
       /\ task.process = last.pre.process

C8_Witness ==
  /\ last.op = "check" /\ last.pre.is_background
  /\ last.pre.ret_code # NONE /\ last.pre.process # NoProc
  /\ last.polls = 0

\* C9: check() returns a true value when ret_code is already set or the
\* Task is not a background Task.
C9_CheckReturnsFinished ==
  (last.op = "check" /\ (last.pre.ret_code # NONE \/ ~last.pre.is_background))
    => Truthy(last.ret)

\* C10: a background Task never has both ret_code and the process handle
\* set.
C10_ExitCodeXorHandle ==
  task.is_background => ~(task.ret_code # NONE /\ task.process # NoProc)

\* C11: every shutdown() leaves the process handle cleared, whether it
\* returns or raises.
C11_ShutdownClearsHandle == last.op = "shutdown" => task.process = NoProc

\* A shutdown() of a background Task whose process was still running when
\* shutdown() decided about termination.
ShutdownOfLive ==
  last.op = "shutdown" /\ last.pre.is_background /\ last.liveAtKill

\* C12: shutdown() of a background Task whose process is still running
\* invokes shutdown_process and stops the process, whatever ignore_failure
\* is.
C12_ShutdownKillsLive ==
  ShutdownOfLive
    => /\ last.kills = 1
       /\ ~Running(procs, last.pre.process)
       /\ task.process = NoProc

C12_Witness ==
  /\ ShutdownOfLive /\ ~last.pre.ignore_failure
  /\ last.kills = 1 /\ procs[last.pre.process].state = "killed"

\* C13: ret_code, once set, is never changed or unset, and it is only set
\* by a call that polled the Task's process after the process had ended,
\* to the exit code of that process.
C13_ExitCodeSetOnce ==
  [][/\ task.ret_code # NONE => task'.ret_code = task.ret_code
     /\ (task.ret_code = NONE /\ task'.ret_code # NONE)
          => /\ last'.polls >= 1
             /\ task.process # NoProc
             /\ procs'[task.process].state = "exited"
             /\ procs'[task.process].code = task'.ret_code]_vars

C13_Witness ==
  /\ last.op = "check" /\ last.pre.ret_code = 7 /\ task.ret_code = 7
  /\ task.process # NoProc /\ Running(procs, task.process)

C16_SinksAsConfigured ==
  (last.op = "start" /\ last.spawns = 1)
    => /\ procs[Len(procs)].stdout = Get(config, "out", LogInfo)
       /\ procs[Len(procs)].stderr = Get(config, "err", LogDebug)

\* Some entry of the configuration has no command.
MissingCommand ==
  \E st \in StageNames : \E i \in 1..Len(parameters[st]) :
    "command" \notin DOMAIN parameters[st][i]

\* C14: an entry without a command is an error of loading: no Task is made
\* of it, and no process of the run is spawned.
C14_NoCommandFailsAtLoad ==
  MissingCommand
    => /\ \A id \in TaskIds(lists) :
            lists[id[1]][id[2]].command # ValueErrorObject
       /\ Len(procs) = 0

\* C15: ShellExecutor.check() does not return true while a prepare, startup
\* or check task it polled is still running.
C15_CheckReportsTasks ==
  (~MissingCommand /\ hookEnd.hook = "check" /\ hookEnd.raised = NoError /\ Truthy(hookEnd.ret))
    => hookEnd.unfinished = 0

\* C17: in a run whose entries all have a command, no Task has shutdown()
\* called more than once, when the run is over without an error every Task
\* has had its one shutdown(), and a call on a Task after its shutdown()
\* polls, spawns and terminates nothing.
C17_ShutdownOnceThenInert ==
  ~MissingCommand =>
  /\ \A id \in TaskIds(calls) : calls[id[1]][id[2]].shutdown <= 1
  /\ (pc.hook = "done" /\ ~pc.failed)
       => \A id \in TaskIds(calls) : calls[id[1]][id[2]].shutdown = 1
  /\ who.shutBefore > 0
       => (last.polls = 0 /\ last.spawns = 0 /\ last.kills = 0)

\* C18: in a run whose entries all have a command, a check() or shutdown()
\* of a Task comes after a start() of that Task, and check() never polls a
\* Task whose handle is None.
C18_StartBeforeCheckAndShutdown ==
  (~MissingCommand /\ last.op \in {"check", "shutdown"})
    => (who.started /\ last.raised # AttributeError)

\* C19: in a run whose entries all have a command, once post_process() has
\* ended no Task of the five lists has a process still running.
C19_NothingRunsAfterPostProcess ==
  (~MissingCommand /\ pc.hook = "done")
    => \A id \in TaskIds(lists) : ~Running(procs, lists[id[1]][id[2]].process)
====
